---- MODULE Spec2Model ----
(***************************************************************************)
(* The media upload and deletion handlers of cmd/media.go                   *)
(* (handleUploadMedia, handleDeleteMedia, processImage).                   *)
(*                                                                         *)
(* Each request runs in its own worker.  The only state shared between     *)
(* workers is the blob store (app.media) and the metadata store            *)
(* (app.core): every call to one of them is one atomic step, and the       *)
(* workers' steps interleave freely.                                       *)
(*                                                                         *)
(* A file name is the record [stem, ext]: the string stem "." ext.         *)
(***************************************************************************)
EXTENDS Naturals, Sequences, FiniteSets, TLC

\* ------------------------------------------------------------------ bounds

\* The requests (uploads and deletes together) of one behaviour: a request
\* that starts while no other is being served counts 1, a request that starts
\* beside another counts 2, and the counts add up to MaxLoad at most.
MaxLoad == 3

\* Worker threads serving requests concurrently.
Workers == {1, 2}

\* ---------------------------------------------------------------- constants

thumbPrefix == "thumb_"

thumbnailSize == 250

vectorExts == {"svg"}

imageExts == {"gif", "png", "jpg", "jpeg"}

\* The allowlists app.constants.MediaUpload.Extensions is configured with.
AllowLists == {{"*"}, {"png", "jpg"}}

\* The empty string as a file name (thumbfName = "").
NoName == [stem |-> "", ext |-> ""]

\* No multipart file (the form holds none, or it cannot be opened).
NoFile == [dir |-> "", stem |-> "", ext |-> "", ctype |-> "", w |-> 0, h |-> 0]

\* The multipart files clients send: directory part, stem and extension of
\* file.Filename, the declared Content-Type, and the pixel size of the image
\* the bytes decode to (w = 0: the bytes decode to no image).
Files ==
  { [dir |-> "",    stem |-> "cat",       ext |-> "png", ctype |-> "image/png",       w |-> 800, h |-> 600],
    [dir |-> "up/", stem |-> "thumb_cat", ext |-> "png", ctype |-> "application/pdf", w |-> 100, h |-> 50],
    [dir |-> "",    stem |-> "logo",      ext |-> "SVG", ctype |-> "image/svg+xml",   w |-> 0,   h |-> 0],
    [dir |-> "",    stem |-> "notes",     ext |-> "pdf", ctype |-> "image/png",       w |-> 0,   h |-> 0] }

\* The errors of reading the form.
FormErrors == {"invalidFile", "errorReadingFile"}

\* What generateRandomString(6) can return.
Suffixes == {"k3Xq9a", "Zp07Lm"}

\* The tag a blob store appends when it renames a key on put.
RenameTag == "~1"

\* The blob store backends app.constants.MediaUpload.Provider selects, and
\* those of them that rename a key that is taken instead of replacing its blob.
Providers == {"filesystem", "s3"}

RenamingProviders == {"filesystem"}

\* The ids a client asks to delete.
DeleteIds == 0 .. 2

\* The ids a client asks to get.
GetIds == 0 .. 2

\* ------------------------------------------------------------------ state

VARIABLES
  Extensions,   \* app.constants.MediaUpload.Extensions
  Provider,     \* app.constants.MediaUpload.Provider
  blobs,        \* keys present in the blob store app.media
  media,        \* rows of the media table behind app.core
  nextId,       \* the id the next inserted row gets
  load,         \* what the requests started so far count
  delFailed,    \* some app.media.Delete call has returned an error
  req           \* per worker: the request it serves and the handler's locals

vars == <<Extensions, Provider, blobs, media, nextId, load, delFailed, req>>

\* A worker that serves no request.
Idle ==
  [pc |-> "idle", kind |-> "none", file |-> NoFile, id |-> 0,
   fName |-> NoName, thumbfName |-> NoName, cleanUp |-> FALSE,
   width |-> 0, height |-> 0, collided |-> FALSE,
   err |-> "", out |-> 0, rows |-> {}, log |-> <<>>,
   \* what the request has done so far: the keys it asked the blob store to
   \* put, the keys it asked it to delete and whether each delete succeeded,
   \* the inserts it issued, and the keys another request has stored since
   \* this one deleted them
   puts |-> <<>>, dels |-> <<>>, delOk |-> <<>>, inserts |-> 0, reput |-> {}]

\* ---------------------------------------------------------------- helpers

\* strings.ToLower on the extensions in use.
ToLower(s) ==
  CASE s = "PNG" -> "png"
    [] s = "SVG" -> "svg"
    [] s = "PDF" -> "pdf"
    [] OTHER -> s

inArray(val, vals) == val \in vals

\* ext = strings.TrimPrefix(strings.ToLower(filepath.Ext(file.Filename)), ".")
ExtOf(f) == ToLower(f.ext)

\* ExtensionAllowed with the validation left out.
ExtensionAllowed_Any(ext, allow) == TRUE

\* The extension validation of lines 53-58: TRUE when the upload may go on.
ExtensionAllowed(ext, allow) ==
  IF ~inArray("*", allow) THEN inArray(ext, allow) ELSE TRUE

\* makeFilename: the sanitized name keeps the base name and the extension
\* and drops the directory part.
makeFilename(f) == [stem |-> f.stem, ext |-> f.ext]

\* appendSuffixToFilename: <name>_<suffix><ext>.
appendSuffixToFilename(name, suffix) ==
  [stem |-> name.stem \o "_" \o suffix, ext |-> name.ext]

\* thumbPrefix + fName
ThumbName(name) == [stem |-> thumbPrefix \o name.stem, ext |-> name.ext]

\* app.core.GetMedia(0, "", fName, ...): err == nil iff a row has the name.
GetMediaFound(name, rows) == \E m \in rows : m.filename = name

\* ------------------------------------------------------------- blob store

\* The key a blob store that renames on put stores `key` under.
Renamed(key) == [stem |-> key.stem \o RenameTag, ext |-> key.ext]

\* The key a renaming store stores `key` under: the first of key, key~1,
\* key~1~1, ... that is free.
RECURSIVE FreeKey(_, _)
FreeKey(key, B) == IF key \notin B THEN key ELSE FreeKey(Renamed(key), B)

\* The key the store of provider `prov` stores a blob put under `key` at: a
\* store that renames never replaces a blob, the other stores under `key`
\* whatever is there.
StoredKey(prov, key, B) == IF prov \in RenamingProviders THEN FreeKey(key, B) ELSE key

\* app.media.Put(key, contentType, data): what the call can do to the store B.
\* It fails and stores nothing, or stores the blob and returns the key it
\* stored it under.
Put(prov, key, B) ==
  { [ok |-> FALSE, stored |-> NoName, blobs |-> B],
    [ok |-> TRUE,  stored |-> StoredKey(prov, key, B),
     blobs |-> B \cup {StoredKey(prov, key, B)}] }

\* app.media.Delete(key): the blob is removed (no blob there: nothing to do),
\* or the call fails and the store is as before.
Delete(key, B) ==
  { [ok |-> TRUE,  blobs |-> B \ {key}],
    [ok |-> FALSE, blobs |-> B] }

\* --------------------------------------------------------- metadata store

\* The row InsertMedia writes.
Row(id, fName, thumb, ctype, meta, prov) ==
  [id |-> id, filename |-> fName, thumb |-> thumb, contentType |-> ctype,
   meta |-> meta, provider |-> prov]

\* InsertAllowed of a table that enforces no uniqueness.
InsertAllowed_Unchecked(fName, rows) == TRUE

\* The uniqueness the metadata store enforces on insert: TRUE when a row
\* named fName may be inserted beside `rows`.
InsertAllowed(fName, rows) == \A m \in rows : m.filename # fName

\* app.core.InsertMedia: the row is inserted under a fresh id, or the insert
\* fails (always when the filename is taken) and the table is as before.
InsertMedia(fName, thumb, ctype, meta, prov, rows, id) ==
  { [ok |-> FALSE, rows |-> rows, id |-> 0] }
  \cup
  IF InsertAllowed(fName, rows)
    THEN { [ok |-> TRUE, rows |-> rows \cup {Row(id, fName, thumb, ctype, meta, prov)},
            id |-> id] }
    ELSE {}

\* app.core.DeleteMedia(id): the row is removed and its filename returned,
\* or there is no such row (or the query fails) and the table is as before.
DeleteMedia(id, rows) ==
  { [ok |-> FALSE, rows |-> rows, fname |-> NoName,
     err |-> IF \E m \in rows : m.id = id THEN "errorDeleting" ELSE "notFound"] }
  \cup
  { [ok |-> TRUE, rows |-> rows \ {m}, fname |-> m.filename, err |-> ""] :
      m \in {x \in rows : x.id = id} }

\* app.core.GetMedia(id, "", "", ...): the row with the id, or none (NotFound).
GetMedia(id, rows) == { m \in rows : m.id = id }

\* app.core.QueryMedia(provider, query, offset, limit): the rows of the page
\* (a page holds every row of the table).
QueryMedia(rows) == rows

\* ----------------------------------------------------------- processImage

\* imaging.Resize(img, thumbnailSize, 0, ...): the height that keeps the
\* aspect ratio, rounded, at least 1.
ResizedHeight(w, h) ==
  LET r == (2 * thumbnailSize * h + w) \div (2 * w)
  IN IF r < 1 THEN 1 ELSE r

\* processImage that returns the width and height of the thumbnail.
processImage_ThumbnailSize(f) ==
  { [ok |-> FALSE, tw |-> 0, th |-> 0, w |-> 0, h |-> 0] }
  \cup
  IF f.w > 0
    THEN { [ok |-> TRUE, tw |-> thumbnailSize, th |-> ResizedHeight(f.w, f.h),
            w |-> thumbnailSize, h |-> ResizedHeight(f.w, f.h)] }
    ELSE {}

\* processImage(file): the thumbnail and the original image's width and
\* height, or an error (the file cannot be opened or decoded, or the
\* thumbnail cannot be encoded).
processImage(f) ==
  { [ok |-> FALSE, tw |-> 0, th |-> 0, w |-> 0, h |-> 0] }
  \cup
  IF f.w > 0
    THEN { [ok |-> TRUE, tw |-> thumbnailSize, th |-> ResizedHeight(f.w, f.h),
            w |-> f.w, h |-> f.h] }
    ELSE {}

\* -------------------------------------------------------- handleUploadMedia

\* isImage that takes no extension for a raster image's.
isImage_Never(ext) == FALSE

\* isImage := inArray(ext, imageExts)
isImage(ext) == inArray(ext, imageExts)

\* isVector that takes no extension for a vector image's.
isVector_Never(ext) == FALSE

\* inArray(ext, vectorExts)
isVector(ext) == inArray(ext, vectorExts)

\* The names the upload goes on with after the sanitized name `name` was
\* looked up in the table (lines 61-72): the name itself when no row has it,
\* else the name with a random suffix; the suffixed name is not looked up
\* again.
ResolveName(name, rows) ==
  IF GetMediaFound(name, rows)
    THEN { appendSuffixToFilename(name, s) : s \in Suffixes }
    ELSE { name }

\* meta of lines 129-135.
MetaOf(ext, width, height) ==
  IF isImage(ext) THEN { <<"width", width>>, <<"height", height>> } ELSE {}

\* CleanupKeys that forgets the thumbnail.
CleanupKeys_OriginalOnly(fName, thumbfName) == <<fName>>

\* The keys the deferred function of lines 88-96 deletes, in order.
CleanupKeys(fName, thumbfName) ==
  IF thumbfName # NoName THEN <<fName, thumbfName>> ELSE <<fName>>

\* A handler that has returned has its response written at once: no other
\* step comes between (the write touches neither store).
NoneDone == \A q \in Workers : req[q].pc # "done"

\* What the request worker p starts counts.
Cost(p) == IF \E q \in Workers \ {p} : req[q].pc # "idle" THEN 2 ELSE 1

\* A request goes to the first worker that is free.
FirstFree(p) ==
  /\ NoneDone
  /\ req[p].pc = "idle"
  /\ \A q \in Workers : q < p => req[q].pc # "idle"

\* The requests of the other workers after worker p stored a blob under k:
\* a request that has deleted k notes that k is stored again.
Others(p, k) ==
  [q \in Workers |->
     IF q # p /\ \E i \in 1 .. Len(req[q].dels) : req[q].dels[i] = k /\ req[q].delOk[i]
       THEN [req[q] EXCEPT !.reput = @ \cup {k}]
       ELSE req[q]]

\* Finish that has the deferred function delete blobs on every return.
Finish_CleaningUp(r, err, out) ==
  [r EXCEPT !.pc = "cleanup", !.cleanUp = TRUE, !.err = err, !.out = out]

\* The request ends: the handler returns err (or the row `out`).
Finish(r, err, out) == [r EXCEPT !.pc = "done", !.err = err, !.out = out]

\* FinishDeferred that returns without setting cleanUp.
FinishDeferred_NoCleanup(r, err) == [r EXCEPT !.pc = "done", !.err = err]

\* The request ends after its deferred function ran: with cleanUp set the
\* blobs are deleted first.
FinishDeferred(r, err) ==
  [r EXCEPT !.pc = "cleanup", !.cleanUp = TRUE, !.err = err]

\* Lines 32-43: the form holds no file, or the file cannot be opened.
UploadBadForm(p, e) ==
  /\ FirstFree(p)
  /\ load + Cost(p) <= MaxLoad
  /\ load' = load + Cost(p)
  /\ req' = [req EXCEPT ![p] = Finish([Idle EXCEPT !.kind = "upload"], e, 0)]
  /\ UNCHANGED <<Extensions, Provider, blobs, media, nextId, delFailed>>

\* Lines 46-72: the extension is validated, the name sanitized and looked
\* up, and suffixed when a row has it.
UploadBegin(p, f) ==
  /\ FirstFree(p)
  /\ load + Cost(p) <= MaxLoad
  /\ load' = load + Cost(p)
  /\ LET r0 == [Idle EXCEPT !.kind = "upload", !.file = f]
         ext == ExtOf(f)
         name == makeFilename(f)
     IN \/ /\ ~ExtensionAllowed(ext, Extensions)
           /\ req' = [req EXCEPT ![p] = Finish(r0, "unsupportedFileType", 0)]
        \/ /\ ExtensionAllowed(ext, Extensions)
           /\ GetMediaFound(name, media)
           /\ req' = [req EXCEPT ![p] =
                        Finish([r0 EXCEPT !.log = <<"error generating random string">>],
                               "internalError", 0)]
        \/ /\ ExtensionAllowed(ext, Extensions)
           /\ \E n \in ResolveName(name, media) :
                req' = [req EXCEPT ![p] =
                          [r0 EXCEPT !.pc = "put", !.fName = n,
                                     !.collided = GetMediaFound(name, media)]]
  /\ UNCHANGED <<Extensions, Provider, blobs, media, nextId, delFailed>>

\* StepAfterPut that makes no thumbnail.
StepAfterPut_Insert(ext) == "insert"

\* Lines 102-103: what follows the put of the original, the thumbnail step
\* for a raster image and else the insert.
StepAfterPut(ext) == IF isImage(ext) THEN "thumb" ELSE "insert"

\* Lines 74-96, and 124-126 for a file that is no raster image: the original
\* is put in the blob store.
UploadPut(p) ==
  /\ req[p].pc = "put"
  /\ NoneDone
  /\ LET r == req[p]
         ext == ExtOf(r.file)
     IN \E o \in Put(Provider, r.fName, blobs) :
          /\ blobs' = o.blobs
          /\ LET r1 == [r EXCEPT !.puts = Append(@, r.fName)]
             IN req' = [(IF o.ok THEN Others(p, o.stored) ELSE req) EXCEPT ![p] =
                  IF ~o.ok
                    THEN Finish([r1 EXCEPT !.fName = o.stored,
                                           !.log = Append(@, "error uploading file")],
                                "errorUploading", 0)
                    ELSE [r1 EXCEPT !.fName = o.stored,
                                    !.thumbfName =
                                       IF ~isImage(ext) /\ isVector(ext)
                                         THEN o.stored ELSE NoName,
                                    !.pc = StepAfterPut(ext)]]
  /\ UNCHANGED <<Extensions, Provider, media, nextId, load, delFailed>>

\* Lines 101-126 for a raster image: the thumbnail is made and put in the
\* blob store.
UploadThumb(p) ==
  /\ req[p].pc = "thumb"
  /\ NoneDone
  /\ LET r == req[p]
         ext == ExtOf(r.file)
     IN \E img \in processImage(r.file) :
          \/ /\ ~img.ok
             /\ req' = [req EXCEPT ![p] =
                          FinishDeferred([r EXCEPT !.log = Append(@, "error resizing image")],
                                         "errorResizing")]
             /\ blobs' = blobs
          \/ /\ img.ok
             /\ \E o \in Put(Provider, ThumbName(r.fName), blobs) :
                  /\ blobs' = o.blobs
                  /\ LET r1 == [r EXCEPT !.width = img.w, !.height = img.h,
                                         !.puts = Append(@, ThumbName(r.fName))]
                     IN req' = [(IF o.ok THEN Others(p, o.stored) ELSE req) EXCEPT ![p] =
                          IF ~o.ok
                            THEN FinishDeferred(
                                   [r1 EXCEPT !.log = Append(@, "error saving thumbnail")],
                                   "errorSavingThumbnail")
                            ELSE [r1 EXCEPT !.thumbfName =
                                               IF isVector(ext) THEN r.fName ELSE o.stored,
                                            !.pc = "insert"]]
  /\ UNCHANGED <<Extensions, Provider, media, nextId, load, delFailed>>

\* Lines 128-145: the row is inserted.
UploadInsert(p) ==
  /\ req[p].pc = "insert"
  /\ NoneDone
  /\ LET r == req[p]
         meta == MetaOf(ExtOf(r.file), r.width, r.height)
     IN \E o \in InsertMedia(r.fName, r.thumbfName, r.file.ctype, meta, Provider, media, nextId) :
          /\ media' = o.rows
          /\ nextId' = IF o.ok THEN nextId + 1 ELSE nextId
          /\ LET r1 == [r EXCEPT !.inserts = @ + 1]
             IN req' = [req EXCEPT ![p] =
                  IF o.ok THEN Finish(r1, "", o.id)
                          ELSE FinishDeferred(r1, "insertError")]
  /\ UNCHANGED <<Extensions, Provider, blobs, load, delFailed>>

\* CleanupGoesOn of a deferred function that gives up after a failed delete.
CleanupGoesOn_AfterSuccessOnly(ok) == ok

\* Lines 90-94: what app.media.Delete returns (ok: no error) is dropped, the
\* deferred function goes on to the next blob either way.
CleanupGoesOn(ok) == TRUE

\* Lines 88-96: the deferred function deletes the next of the blobs it has
\* to delete, whatever the delete returns.
UploadCleanup(p) ==
  /\ req[p].pc = "cleanup"
  /\ NoneDone
  /\ LET r == req[p]
         keys == CleanupKeys(r.fName, r.thumbfName)
         k == keys[Len(r.dels) + 1]
     IN \E o \in Delete(k, blobs) :
          /\ blobs' = o.blobs
          /\ delFailed' = (delFailed \/ ~o.ok)
          /\ req' = [req EXCEPT ![p] =
                       [r EXCEPT !.dels = Append(@, k), !.delOk = Append(@, o.ok),
                                 !.pc = IF Len(r.dels) + 1 = Len(keys) \/ ~CleanupGoesOn(o.ok)
                                          THEN "done" ELSE "cleanup"]]
  /\ UNCHANGED <<Extensions, Provider, media, nextId, load>>

\* -------------------------------------------------------- handleDeleteMedia

\* DeleteKeys that forgets the thumbnail.
DeleteKeys_OriginalOnly(fname) == <<fname>>

\* The keys lines 202-203 delete, in order.
DeleteKeys(fname) == <<fname, ThumbName(fname)>>

\* InvalidID that takes every id.
InvalidID_Never(id) == FALSE

\* if id < 1 (line 191)
InvalidID(id) == id < 1

\* Lines 185-199: the id is validated and the row deleted from the table.
DeleteBegin(p, id) ==
  /\ FirstFree(p)
  /\ load + Cost(p) <= MaxLoad
  /\ load' = load + Cost(p)
  /\ LET r0 == [Idle EXCEPT !.kind = "delete", !.id = id]
     IN IF InvalidID(id)
          THEN /\ req' = [req EXCEPT ![p] = Finish(r0, "invalidID", 0)]
               /\ media' = media
          ELSE \E o \in DeleteMedia(id, media) :
                 /\ media' = o.rows
                 /\ req' = [req EXCEPT ![p] =
                      IF o.ok THEN [r0 EXCEPT !.pc = "delblobs", !.fName = o.fname]
                              ELSE Finish(r0, o.err, 0)]
  /\ UNCHANGED <<Extensions, Provider, blobs, nextId, delFailed>>

\* Lines 201-205: the next of the two blobs is deleted, whatever the delete
\* returns; after the second the handler answers true.
DeleteBlobs(p) ==
  /\ req[p].pc = "delblobs"
  /\ NoneDone
  /\ LET r == req[p]
         keys == DeleteKeys(r.fName)
         k == keys[Len(r.dels) + 1]
     IN \E o \in Delete(k, blobs) :
          /\ blobs' = o.blobs
          /\ delFailed' = (delFailed \/ ~o.ok)
          /\ req' = [req EXCEPT ![p] =
                       [r EXCEPT !.dels = Append(@, k), !.delOk = Append(@, o.ok),
                                 !.pc = IF Len(r.dels) + 1 = Len(keys)
                                          THEN "done" ELSE "delblobs"]]
  /\ UNCHANGED <<Extensions, Provider, media, nextId, load>>

\* --------------------------------------------------------- handleGetMedia

\* Lines 148-182: with an id above 0 the row of that id is returned, or the
\* error of the lookup; else the page of rows.
handleGetMedia(p, id) ==
  /\ FirstFree(p)
  /\ load + Cost(p) <= MaxLoad
  /\ load' = load + Cost(p)
  /\ LET r0 == [Idle EXCEPT !.kind = "get", !.id = id]
     IN req' = [req EXCEPT ![p] =
          IF id > 0
            THEN IF GetMedia(id, media) = {}
                   THEN Finish(r0, "notFound", 0)
                   ELSE Finish([r0 EXCEPT !.rows = GetMedia(id, media)], "", id)
            ELSE Finish([r0 EXCEPT !.rows = QueryMedia(media)], "", 0)]
  /\ UNCHANGED <<Extensions, Provider, blobs, media, nextId, delFailed>>

\* The response is written and the worker is free again.
Return(p) ==
  /\ req[p].pc = "done"
  /\ req' = [req EXCEPT ![p] = Idle]
  /\ UNCHANGED <<Extensions, Provider, blobs, media, nextId, load, delFailed>>

\* ------------------------------------------------------------ specification

Init ==
  /\ Extensions \in AllowLists
  /\ Provider \in Providers
  /\ blobs = {}
  /\ media = {}
  /\ nextId = 1
  /\ load = 0
  /\ delFailed = FALSE
  /\ req = [p \in Workers |-> Idle]

Next ==
  \E p \in Workers :
    \/ \E e \in FormErrors : UploadBadForm(p, e)
    \/ \E f \in Files : UploadBegin(p, f)
    \/ UploadPut(p)
    \/ UploadThumb(p)
    \/ UploadInsert(p)
    \/ UploadCleanup(p)
    \/ \E id \in DeleteIds : DeleteBegin(p, id)
    \/ DeleteBlobs(p)
    \/ \E id \in GetIds : handleGetMedia(p, id)
    \/ Return(p)

Spec == Init /\ [][Next]_vars

\* ------------------------------------------------------------ properties

\* No request is in flight.
Quiescent == \A p \in Workers : req[p].pc \in {"idle", "done"}

\* Some row names key k as its filename or as its thumbnail.
Referenced(k) == \E m \in media : k = m.filename \/ k = m.thumb

\* The content types of the raster and vector images.
ImageContentTypes == {"image/gif", "image/png", "image/jpeg", "image/svg+xml"}

\* The upload of worker p has returned.
UploadDone(p) == req[p].kind = "upload" /\ req[p].pc = "done"

\* C1: in every quiescent state reached while no BlobStore.delete has failed,
\* every key of the blob store is the filename or the thumbnail of a live row.
C1_NoOrphanedBlob ==
  (Quiescent /\ ~delFailed) => \A k \in blobs : Referenced(k)

\* C2: no step of an upload makes the filename blob of a row that is live
\* before and after the step absent from the blob store.
C2_UploadKeepsLiveBlobs ==
  [][\A p \in Workers :
       (req[p].kind = "upload" /\ req'[p] # req[p]) =>
         \A m \in media : m.filename \in blobs => m.filename \in blobs']_vars

C6_SuffixedNameIsNew ==
  [][\A p \in Workers :
       (req[p].pc = "idle" /\ req'[p].pc = "put" /\ req'[p].collided) =>
         ~GetMediaFound(req'[p].fName, media)]_vars

\* C7: an upload whose form was read, under an allowlist without "*" that
\* does not hold the file's lowercased extension, has returned
\* unsupportedFileType without a put, an insert or a delete; under an
\* allowlist with "*" no upload returns unsupportedFileType.
C7_ExtensionCheck ==
  \A p \in Workers :
    (req[p].kind = "upload" /\ req[p].err \notin FormErrors) =>
      LET r == req[p] IN
      /\ ("*" \notin Extensions /\ ToLower(r.file.ext) \notin Extensions) =>
           /\ r.pc = "done" /\ r.err = "unsupportedFileType"
           /\ r.puts = <<>> /\ r.dels = <<>> /\ r.inserts = 0
      /\ "*" \in Extensions => r.err # "unsupportedFileType"

\* C7 witness: an upload has returned unsupportedFileType.
C7_Witness ==
  \E p \in Workers : UploadDone(p) /\ req[p].err = "unsupportedFileType"

\* C8: a vector upload that has succeeded has issued one put, that of its
\* sanitized name, and its row has the key that put returned as filename
\* and as thumbnail.
C8_VectorPassthrough ==
  \A p \in Workers :
    (UploadDone(p) /\ req[p].err = "" /\ ToLower(req[p].file.ext) \in vectorExts) =>
      LET r == req[p] IN
      /\ Len(r.puts) = 1
      /\ \E m \in media :
           m.id = r.out /\ m.filename = r.fName /\ m.thumb = m.filename

\* C8 witness: a vector upload has succeeded.
C8_Witness ==
  \E p \in Workers :
    UploadDone(p) /\ req[p].err = "" /\ ToLower(req[p].file.ext) \in vectorExts

\* C9 as claimed: a row has a thumbnail exactly when its content type is
\* that of a raster or vector image.
C9_ThumbnailIffImageContentType ==
  \A m \in media : (m.thumb # NoName) <=> (m.contentType \in ImageContentTypes)

\* C9 amended: a row has a thumbnail exactly when the lowercased extension
\* of its file name is a raster or a vector extension, whatever its content
\* type.
C9_ThumbnailIffImageExtension ==
  \A m \in media :
    (m.thumb # NoName) <=> (ToLower(m.filename.ext) \in imageExts \cup vectorExts)

\* C9 witness: a row with a thumbnail whose content type is no image's, and
\* a row without one whose content type is an image's.
C9_Witness ==
  /\ \E m \in media : m.thumb # NoName /\ m.contentType \notin ImageContentTypes
  /\ \E m \in media : m.thumb = NoName /\ m.contentType \in ImageContentTypes

\* C10: a delete request issues a blob delete only after its row is gone
\* from the table; it deletes the row's filename and then thumbPrefix plus
\* that filename, both whatever the first returns and whether or not the
\* row had a thumbnail, and then answers without an error whatever the two
\* deletes returned.
C10_DeleteOrder ==
  \A p \in Workers :
    req[p].kind = "delete" =>
      LET r == req[p] IN
      /\ r.dels # <<>> => ~\E m \in media : m.id = r.id
      /\ r.pc = "delblobs" => /\ ~\E m \in media : m.id = r.id
                              /\ Len(r.dels) < 2
      /\ \A i \in 1 .. Len(r.dels) : r.dels[i] = <<r.fName, ThumbName(r.fName)>>[i]
      /\ (r.pc = "done" /\ r.err = "") =>
           r.dels = <<r.fName, ThumbName(r.fName)>>
      /\ (r.pc = "done" /\ r.fName # NoName) => r.err = ""

\* C10 witness: a delete request has answered without an error although both
\* blob deletes failed and the thumbnail key held no blob.
C10_Witness ==
  \E p \in Workers :
    /\ req[p].kind = "delete" /\ req[p].pc = "done" /\ req[p].err = ""
    /\ req[p].delOk = <<FALSE, FALSE>>
    /\ ThumbName(req[p].fName) \notin blobs

\* C11: a delete request answers invalidID exactly when its id is below 1,
\* and notFound when its id is 1 or more and no row has it (also when the
\* row of that id was deleted before); a delete request that answers one of
\* the two has issued no blob delete and its step leaves the blob store and
\* the table as they were.  Once a delete request has removed the row of an
\* id no row has that id again, and a get request for an id that no row has
\* answers notFound.
C11_DeleteErrors ==
  [][\A p \in Workers :
       LET r == req'[p] IN
       /\ (req[p].pc = "idle" /\ r.kind = "delete" /\ r.pc = "done") =>
            /\ (r.err = "invalidID") <=> (r.id < 1)
            /\ (r.id >= 1 /\ GetMedia(r.id, media) = {}) => r.err = "notFound"
            /\ r.err \in {"invalidID", "notFound"} =>
                 r.dels = <<>> /\ blobs' = blobs /\ media' = media
       /\ (r.kind = "delete" /\ r.err # "") => r.pc = "done" /\ r.dels = <<>>
       /\ (req[p].pc = "idle" /\ r.kind = "delete" /\ r.pc = "delblobs") =>
            GetMedia(r.id, media') = {}
       /\ \A i \in 1 .. nextId - 1 :
            GetMedia(i, media) = {} => GetMedia(i, media') = {}
       /\ (r.kind = "get" /\ r.pc = "done" /\ r.id > 0 /\ GetMedia(r.id, media') = {}) =>
            r.err = "notFound"]_vars

\* C11 witness: a delete request has answered notFound for an id whose row
\* an earlier delete request removed.
C11_Witness ==
  \E p \in Workers :
    /\ req[p].kind = "delete" /\ req[p].pc = "done" /\ req[p].err = "notFound"
    /\ req[p].id \in 1 .. nextId - 1
    /\ req[p].dels = <<>>

\* The errors an upload returns after its deferred function deleted blobs.
CleanupErrors == {"errorResizing", "errorSavingThumbnail", "insertError"}

\* C12: the error an upload returns after cleanup is the error that set
\* cleanUp (that of the thumbnail step that failed, or that of the failed
\* insert) whatever the cleanup deletes return: no cleanup step changes it.
\* An upload that returns such an error with a stored thumbnail has issued
\* the delete of the original and the delete of the thumbnail, whatever the
\* first returned.
C12_CleanupKeepsError ==
  [][\A p \in Workers :
       LET r == req'[p] IN
       /\ req[p].pc = "cleanup" => r.err = req[p].err /\ r.out = req[p].out
       /\ r.cleanUp =>
            /\ r.pc \in {"cleanup", "done"}
            /\ r.err \in CleanupErrors
            /\ (r.err = "insertError") <=> (r.inserts = 1)
            /\ (r.err = "errorResizing") <=>
                 (r.log # <<>> /\ r.log[Len(r.log)] = "error resizing image")
            /\ (r.err = "errorSavingThumbnail") <=>
                 (r.log # <<>> /\ r.log[Len(r.log)] = "error saving thumbnail")
       /\ (r.pc = "done" /\ r.cleanUp /\ r.thumbfName # NoName) =>
            r.dels = <<r.fName, r.thumbfName>>
       /\ (r.pc = "done" /\ r.cleanUp /\ r.thumbfName = NoName) =>
            r.dels = <<r.fName>>]_vars

\* C12 witness: an upload has returned the insert error after the cleanup
\* delete of its original failed and that of its thumbnail was issued.
C12_Witness ==
  \E p \in Workers :
    /\ UploadDone(p) /\ req[p].cleanUp /\ req[p].err = "insertError"
    /\ Len(req[p].dels) = 2 /\ ~req[p].delOk[1]

\* The records the steps of an upload before its cleanup write to the log.
UploadStepRecords ==
  { "error generating random string", "error uploading file",
    "error resizing image", "error saving thumbnail" }

\* C13: a request that has returned after a blob delete it issued failed
\* (in the cleanup of an upload, or in a delete request after its row was
\* removed) has written a record of that failure to the log: a record that
\* is none of those of the upload's earlier steps.
C13_DeleteFailureLogged ==
  \A p \in Workers :
    (req[p].pc = "done" /\ \E i \in 1 .. Len(req[p].delOk) : ~req[p].delOk[i]) =>
      \E j \in 1 .. Len(req[p].log) : req[p].log[j] \notin UploadStepRecords

\* The keys a renaming blob store can return for a put under `key`: the key
\* itself, or the key renamed up to n times.
RECURSIVE Renamings(_, _)
Renamings(key, n) ==
  IF n = 0 THEN {key} ELSE {key} \cup Renamings(Renamed(key), n - 1)

C15_EarlyFailureNoCleanup ==
  [][\A p \in Workers :
       LET r == req'[p] IN
       /\ (r.kind = "upload" /\ r.err \in {"internalError", "errorUploading"}) =>
            /\ r.pc = "done" /\ ~r.cleanUp /\ r.out = 0
            /\ r.dels = <<>> /\ r.inserts = 0 /\ r.thumbfName = NoName
            /\ r.err = "internalError" =>
                 r.puts = <<>> /\ GetMediaFound(makeFilename(r.file), media')
            /\ r.err = "errorUploading" =>
                 /\ Len(r.puts) = 1
                 /\ r.puts[1] \in {makeFilename(r.file)} \cup
                       {appendSuffixToFilename(makeFilename(r.file), x) : x \in Suffixes}
       /\ (req[p].pc \in {"idle", "put"} /\ r.kind = "upload" /\ r # req[p]) =>
            media' = media /\ nextId' = nextId]_vars

\* C15 witness: beside a live row, an upload has returned the error of the
\* failed put of its original.
C15_Witness ==
  \E p \in Workers :
    /\ UploadDone(p) /\ req[p].err = "errorUploading"
    /\ media # {}

\* C16: an upload that has returned a row has issued no delete and has
\* cleanUp unset; the row is in the table with the stored original as
\* filename and, for a raster file, the stored thumbnail as thumbnail, and
\* the blob store holds a blob under each of the two keys.
C16_SuccessKeepsBlobs ==
  \A p \in Workers :
    (UploadDone(p) /\ req[p].err = "") =>
      LET r == req[p] IN
      /\ r.dels = <<>> /\ ~r.cleanUp
      /\ \E m \in media :
           /\ m.id = r.out /\ m.filename = r.fName /\ m.thumb = r.thumbfName
           /\ m.filename \in blobs
           /\ ToLower(r.file.ext) \in imageExts =>
                m.thumb # NoName /\ m.thumb \in blobs

\* C17: an upload repeats no step: it has issued at most one put of its
\* original and at most one of its thumbnail, at most one insert, and no two
\* deletes of the same key.
C17_NoRepeatedStep ==
  \A p \in Workers :
    req[p].kind = "upload" =>
      LET r == req[p] IN
      /\ Len(r.puts) <= 2
      /\ Len(r.puts) = 2 => r.puts[2] # r.puts[1]
      /\ r.inserts <= 1
      /\ \A i, j \in 1 .. Len(r.dels) : r.dels[i] = r.dels[j] => i = j

\* C18: an upload issues its insert only after its put of the original has
\* returned a stored key and, for a file with a raster extension, after its
\* put of the thumbnail has returned one too, and the row it inserts has
\* these keys as filename and thumbnail; while one of the puts is still to
\* come the upload has issued no insert.
C18_InsertAfterPuts ==
  [][\A p \in Workers :
       LET r == req'[p]
           raster == ToLower(r.file.ext) \in imageExts
       IN
       /\ (r.kind = "upload" /\ r.pc \in {"put", "thumb"}) => r.inserts = 0
       /\ (r.kind = "upload" /\ (r.pc = "insert" \/ r.inserts > 0)) =>
            /\ r.fName # NoName
            /\ Len(r.puts) = IF raster THEN 2 ELSE 1
            /\ raster => r.thumbfName # NoName /\ r.puts[2] = ThumbName(r.fName)
       /\ r.inserts > req[p].inserts =>
            /\ req[p].pc = "insert" /\ req[p].puts = r.puts
            /\ blobs' = blobs
            /\ \A m \in media' \ media :
                 m.filename = r.fName /\ m.thumb = r.thumbfName]_vars

\* C18 witness: a raster upload has inserted its row after both of its puts.
C18_Witness ==
  \E p \in Workers :
    /\ UploadDone(p) /\ req[p].err = "" /\ req[p].inserts = 1
    /\ ToLower(req[p].file.ext) \in imageExts
    /\ Len(req[p].puts) = 2
    /\ \E m \in media : m.id = req[p].out /\ m.thumb = req[p].thumbfName

\* Worker p serves the only request in flight.
Alone(p) == \A q \in Workers \ {p} : req[q].pc = "idle"

\* C19: no step of a delete request that runs alone removes the blob a row
\* that is live after the step has as filename.
C19_DeleteKeepsOtherBlobs ==
  [][\A p \in Workers :
       (req'[p].kind = "delete" /\ req'[p] # req[p] /\ Alone(p)) =>
         \A m \in media' : m.filename \in blobs => m.filename \in blobs']_vars

\* C20: no put of an upload that runs alone, and whose lookup of its
\* sanitized name among the filenames would answer now as it answered, stores
\* a blob under a key that a live row has as filename or as thumbnail.
C20_PutSparesLiveKeys ==
  [][\A p \in Workers :
       (/\ req[p].kind = "upload" /\ Alone(p) /\ req[p].pc \in {"put", "thumb"}
        /\ GetMediaFound(makeFilename(req[p].file), media) = req[p].collided
        /\ Len(req'[p].puts) > Len(req[p].puts) /\ req'[p].err = "") =>
         LET k == IF req[p].pc = "put" THEN req'[p].fName ELSE req'[p].thumbfName
         IN ~Referenced(k)]_vars

====
